---------------------------- MODULE Spec2Model ----------------------------
(***************************************************************************)
(* A model of quotexbot's risk-managed execution engine: the TradingState  *)
(* object of src/trade.py and the execute_trades coroutine that the main   *)
(* loop of src/main.py runs once per cycle.                                *)
(*                                                                         *)
(* Units.  Python floats are modelled by exact fixed-point integers:       *)
(*   balances, amounts   1 unit = 1 cent                                   *)
(*   daily_loss   1 unit = 1/100 cent (a profit is amount * percent / 100) *)
(*   percentages  1 unit = 1/100 of a percent (5% = 500); the daily loss   *)
(*                limit alone is in whole percent (10% = 10)               *)
(*   RSI          1 unit = 1 RSI point                                     *)
(*   price, SMA, ATR   1 unit = 1/100                                      *)
(*   time         1 unit = 1 second (int(time.time()))                     *)
(* A product that leaves the grid (percentage * 0.8, * 1.2) is truncated   *)
(* to it; the trade amount is computed exactly and rounded to the cent.    *)
(*                                                                         *)
(* Every await of execute_trades is one step of the model: the code        *)
(* between two awaits runs without interruption on the single event-loop   *)
(* task, the reply of the broker is the step's input.  The statements      *)
(* between the reconciliation loop and the scan (removal, adjustment,      *)
(* loss-limit check) are steps of their own so that their order shows.     *)
(***************************************************************************)
EXTENDS Integers, Sequences, FiniteSets, TLC

\* ------------------------------------------------------------------ bounds
MaxCycles == 3
MaxOrders == 2

\* --------------------------------------------------------------- constants
\* Python's None (also: a missing dict key read with .get); outside every
\* numeric domain the model draws from.
None == -1
TRADE_COOLDOWN == 300
DaySeconds == 86400
RSI_BUY_THRESHOLD == 35
RSI_SELL_THRESHOLD == 65
ATR_MAX == 5
MinAmount == 100
MaxAmount == 500000

\* The environment's configurations (src/settings.py reads them from the
\* process environment; the first one is the file's defaults with trading on).
Config(en, base, lo, hi, lim, lt, wt) ==
    [TRADE_ENABLED |-> en, TRADE_PERCENTAGE |-> base,
     TRADE_PERCENTAGE_MIN |-> lo, TRADE_PERCENTAGE_MAX |-> hi,
     DAILY_LOSS_LIMIT |-> lim,
     CONSECUTIVE_LOSSES_THRESHOLD |-> lt, CONSECUTIVE_WINS_THRESHOLD |-> wt,
     RSI_BUY_THRESHOLD |-> RSI_BUY_THRESHOLD,
     RSI_SELL_THRESHOLD |-> RSI_SELL_THRESHOLD,
     ATR_MAX |-> ATR_MAX]
\* A configuration with other RSI thresholds.
WithThresholds(c, buy, sell) ==
    [c EXCEPT !.RSI_BUY_THRESHOLD = buy, !.RSI_SELL_THRESHOLD = sell]

\* The defaults of src/settings.py, with trading off (the default) and on.
DefaultConfigs ==
    { Config(FALSE, 500, 200, 500, 10, 2, 2),
      Config(TRUE, 500, 200, 500, 10, 2, 2) }
\* Minimum and maximum one adjustment away from the base, thresholds of 1.
TightConfigs == { Config(TRUE, 400, 350, 450, 10, 1, 1) }
\* A base percentage above the maximum, thresholds of 1.
WideConfigs == { Config(TRUE, 1000, 200, 500, 10, 1, 1) }

\* A daily loss limit of 5 percent, the size of one default stake.
LowLimitConfigs == { Config(TRUE, 500, 200, 500, 5, 2, 2) }

\* ------------------------------------------------------------ environment
Assets == {"EURUSD_otc", "GBPUSD_otc"}

\* The candidate lists main hands to execute_trades in one cycle.
AssetLists ==
    { <<>>, <<"EURUSD_otc", "GBPUSD_otc">>, <<"EURUSD_otc", "EURUSD_otc">> }

\* One asset's entry of the indicators dictionary.
Indicator(rsi, sma, atr) == [RSI |-> rsi, SMA |-> sma, ATR |-> atr]
IndicatorCases ==
    { Indicator(None, None, None),   \* missing
      Indicator(30, None, 1),        \* no SMA
      Indicator(30, 105, 1) }        \* RSI below the buy threshold
\* An entry of the dictionary that execute_trades has not read yet: the
\* model draws an asset's entry when line 223 first reads it, and keeps it
\* while a later position of the candidate list can read it again.
Unread == Indicator(None, None, 0)

\* client.get_balance(): 0 stands for "raised, None or not a number", which
\* lines 118-125 turn into 0.0.
Balances == {0, 100000}

\* client.get_realtime_price(asset): the call raises, or its reply holds the
\* price of the latest entry (None when the reply has none or is empty).
PriceReply(r, p) == [raised |-> r, price |-> p]
PriceReplies ==
    { PriceReply(TRUE, None), PriceReply(FALSE, None),
      PriceReply(FALSE, 100), PriceReply(FALSE, 110) }

\* Time the main loop lets pass from one cycle's start to the next: the
\* waiting period, or a day.
SleepSteps == {TRADE_COOLDOWN, DaySeconds}

\* client.check_win(order_id)
WinReply(t, gs, w, pa) == [type |-> t, game_state |-> gs, win |-> w, profitAmount |-> pa]
CheckWinReplies ==
    { WinReply("raise", 0, "None", 0),
      WinReply("None", 0, "None", 0),
      WinReply("False", 0, "None", 0),
      WinReply("str", 0, "None", 0),
      WinReply("dict", 0, "None", 0),
      WinReply("dict", 1, "True", 80),
      WinReply("dict", 1, "False", 0),
      WinReply("dict", 1, "None", 0),
      WinReply("dict", 1, "None", 80) }

\* client.buy(...): (success, response), or the call raises.  kind "dict":
\* the response is a non-empty dict; kind "notdict": it is None, empty or
\* of another type (line 300's test of it fails).  hasId: the response
\* carries an id; percentProfit and accountBalance are None when the
\* response lacks them.
BuyReply(k, ok, hasId, pp, bal) ==
    [kind |-> k, success |-> ok, hasId |-> hasId, percentProfit |-> pp, accountBalance |-> bal]
BuyReplies ==
    { BuyReply("raise", FALSE, FALSE, None, None),
      BuyReply("notdict", TRUE, FALSE, None, None),
      BuyReply("dict", FALSE, FALSE, None, None),
      BuyReply("dict", TRUE, FALSE, None, None),
      BuyReply("dict", TRUE, TRUE, 80, None),
      BuyReply("dict", TRUE, TRUE, 80, 120000),
      BuyReply("dict", TRUE, TRUE, 80, 0) }

\* ------------------------------------------------------------------ state
VARIABLES
    cfg,                        \* the settings module
    \* TradingState
    open_orders, last_trade_time, daily_loss, initial_daily_balance,
    last_reset_time, consecutive_losses, consecutive_wins,
    current_trade_percentage,
    \* the world
    now, cycles, nextId,
    \* execute_trades' frame
    pc, assets, indicators, asset_indicators, current_time, current_balance,
    balance, orders_to_remove, oidx, aidx, direction, amount,
    \* history of the running cycle (applied: of the whole run)
    startOrders, queried, adjusts, limitChecks, submits, applied,
    \* what lines 150-187 made of the latest check_win reply, while the
    \* reconciliation loop runs
    last_outcome,
    \* the scan of this cycle has caught an exception (lines 248, 331)
    caught,
    \* per asset, current_time of the latest client.buy call (None: no call,
    \* or none in the TRADE_COOLDOWN seconds before the running cycle began)
    last_attempt,
    \* check_daily_loss_limit has returned False since the latest reset_daily
    limit_reported,
    \* the inputs and the result of a function applied on its own
    probe,
    \* main's loop and reconnect (src/main.py)
    ctl

tsvars == <<open_orders, last_trade_time, daily_loss, initial_daily_balance,
            last_reset_time, consecutive_losses, consecutive_wins,
            current_trade_percentage>>
envvars == <<cfg, now, cycles, nextId>>
\* The frame without pc, and the cycle's history.
locals == <<assets, indicators, asset_indicators, current_time,
            current_balance, balance, orders_to_remove, oidx, aidx, direction,
            amount>>
cycle == <<startOrders, queried, adjusts, limitChecks, submits, caught>>
aux == <<probe, ctl>>
vars ==
    <<tsvars, envvars, pc, locals, cycle, applied, last_outcome, last_attempt,
      limit_reported, aux>>

\* ------------------------------------------------------------ TradingState
\* A number test that None passes: C25_NoOrderOnMissingInput must reject
\* it.
IsNumber_any(v) == TRUE

\* isinstance(v, (int, float)) for a value that is a number or None.
IsNumber(v) == v # None

Max(a, b) == IF a >= b THEN a ELSE b
Min(a, b) == IF a <= b THEN a ELSE b

\* q + r/d (0 <= r < d) rounded to the nearest integer, ties to the even
\* one (Python's round).
Round(q, r, d) ==
    IF 2 * r < d THEN q
    ELSE IF 2 * r > d THEN q + 1
    ELSE IF q % 2 = 0 THEN q ELSE q + 1

Ids(orders) == { orders[i].id : i \in 1..Len(orders) }

\* A reset_daily that leaves the streaks standing:
\* C18_ResetEffects must reject it.
reset_daily_streaks_kept(bal, t) ==
    /\ daily_loss' = 0
    /\ initial_daily_balance' = bal
    /\ last_reset_time' = t
    /\ UNCHANGED <<consecutive_losses, consecutive_wins>>
    /\ current_trade_percentage' = cfg.TRADE_PERCENTAGE

\* TradingState.reset_daily
reset_daily(bal, t) ==
    /\ daily_loss' = 0
    /\ initial_daily_balance' = bal
    /\ last_reset_time' = t
    /\ consecutive_losses' = 0
    /\ consecutive_wins' = 0
    /\ current_trade_percentage' = cfg.TRADE_PERCENTAGE

\* An add_order that replaces the list by the new order:
\* C27_ScanOnlyAddsOrders must reject it.
add_order_replacing(orders, order) == <<order>>

\* TradingState.add_order
add_order(orders, order) == Append(orders, order)

\* A remove_order that leaves the list as it is: C5_NoDoubleCounting must
\* reject it.
remove_order_kept(orders, order) == orders

\* TradingState.remove_order: list.remove drops the first equal element and
\* raises ValueError, caught here, when there is none.
RECURSIVE remove_order(_, _)
remove_order(orders, order) ==
    IF orders = <<>> THEN <<>>
    ELSE IF Head(orders) = order THEN Tail(orders)
    ELSE <<Head(orders)>> \o remove_order(Tail(orders), order)

\* A removal that empties the list: C13_OpenOrderStays must reject it.
remove_all_cleared(orders, gone) == <<>>

\* The loop of lines 189-190 over orders_to_remove.
RECURSIVE remove_all(_, _)
remove_all(orders, gone) ==
    IF gone = <<>> THEN orders
    ELSE remove_all(remove_order(orders, Head(gone)), Tail(gone))

\* TradingState.update_trade_time
update_trade_time(ltt, asset, t) == [ltt EXCEPT ![asset] = t]

\* An update_loss that leaves the winning streak standing:
\* C10_LossApplied must reject it.
update_loss_streak_kept(amt) ==
    [daily_loss |-> daily_loss + amt,
     consecutive_losses |-> consecutive_losses + 1,
     consecutive_wins |-> consecutive_wins]

\* TradingState.update_loss: the fields it assigns.
update_loss(amt) ==
    [daily_loss |-> daily_loss + amt,
     consecutive_losses |-> consecutive_losses + 1,
     consecutive_wins |-> 0]

\* An update_win that leaves the losing streak standing:
\* C14_StreaksExclusive must reject it.
update_win_losses_kept(profit) ==
    [daily_loss |-> daily_loss - profit,
     consecutive_losses |-> consecutive_losses,
     consecutive_wins |-> consecutive_wins + 1]

\* An update_win that adds the profit to the loss: C9_WinApplied must
\* reject it.
update_win_added(profit) ==
    [daily_loss |-> daily_loss + profit,
     consecutive_losses |-> 0,
     consecutive_wins |-> consecutive_wins + 1]

\* TradingState.update_win: the fields it assigns.
update_win(profit) ==
    [daily_loss |-> daily_loss - profit,
     consecutive_losses |-> 0,
     consecutive_wins |-> consecutive_wins + 1]

\* TradingState.adjust_trade_percentage: the new current_trade_percentage.
adjust_trade_percentage(pct, losses, wins) ==
    IF losses >= cfg.CONSECUTIVE_LOSSES_THRESHOLD /\ pct > cfg.TRADE_PERCENTAGE_MIN
    THEN Max(cfg.TRADE_PERCENTAGE_MIN, (pct * 8) \div 10)
    ELSE IF wins >= cfg.CONSECUTIVE_WINS_THRESHOLD /\ pct < cfg.TRADE_PERCENTAGE_MAX
    THEN Min(cfg.TRADE_PERCENTAGE_MAX, (pct * 12) \div 10)
    ELSE Max(cfg.TRADE_PERCENTAGE_MIN,
             Min(cfg.TRADE_PERCENTAGE_MAX, cfg.TRADE_PERCENTAGE))

\* A check_daily_loss_limit that compares the loss ratio, not the
\* percentage, with DAILY_LOSS_LIMIT: C1_BreakerStopsSubmissions must reject
\* it.
check_daily_loss_limit_ratio(loss, initial) ==
    ~ (initial > 0 /\ loss >= cfg.DAILY_LOSS_LIMIT * initial * 100)

\* TradingState.check_daily_loss_limit: FALSE when the limit is reached.
\* daily_loss / initial_daily_balance * 100 >= DAILY_LOSS_LIMIT, the
\* division cleared (initial_daily_balance > 0; loss counts 1/100 cents).
check_daily_loss_limit(loss, initial) ==
    ~ (initial > 0 /\ loss >= cfg.DAILY_LOSS_LIMIT * initial)

\* ---------------------------------------------------------- execute_trades
\* A reset test that is always true: C17_ResetOncePerDay must reject it.
ResetDue_always(last, t) == TRUE

\* Line 128: a new trading day starts.
ResetDue(last, t) == last = None \/ t - last >= DaySeconds

\* A reading of the reply that takes a draw for a loss:
\* C11_DrawOnlyRemoves must reject it.
Outcome_draw_lost(r) ==
    IF r.type = "raise" THEN "ERROR"
    ELSE IF r.type # "dict" THEN "KEEP"
    ELSE IF r.game_state # 1 THEN "OPEN"
    ELSE IF r.win = "True" THEN "WIN"
    ELSE IF r.win = "False" THEN "LOSS"
    ELSE IF r.win = "None" /\ r.profitAmount = 0 THEN "LOSS"
    ELSE "UNKNOWN"

\* What lines 150-187 make of check_win's reply.
Outcome(r) ==
    IF r.type = "raise" THEN "ERROR"
    ELSE IF r.type # "dict" THEN "KEEP"
    ELSE IF r.game_state # 1 THEN "OPEN"
    ELSE IF r.win = "True" THEN "WIN"
    ELSE IF r.win = "False" THEN "LOSS"
    ELSE IF r.win = "None" /\ r.profitAmount = 0 THEN "DRAW"
    ELSE "UNKNOWN"

\* An open-order test that never finds one: C2_OneOrderPerAsset must
\* reject it.
HasOpenOrder_never(orders, asset) == FALSE

\* A balance guard that lets every balance pass: C22_NoOrderWithoutBalance
\* must reject it.
BalanceUsable_any(b) == TRUE

\* Lines 205 and 275: the balance can size an order (a balance that could
\* not be read is 0.0 by then).
BalanceUsable(b) == b > 0

\* Line 213: the asset already has an open order.
HasOpenOrder(orders, asset) ==
    \E i \in 1..Len(orders) : orders[i].asset = asset

\* A cooldown test that never holds: C16_NoSubmissionInCooldown must
\* reject it.
InCooldown_never(ltt, asset, t) == FALSE

\* Lines 218-219: the asset is in its cooldown.
InCooldown(ltt, asset, t) == t - ltt[asset] < TRADE_COOLDOWN

\* Line 229: all three indicators are numbers.
IndicatorsUsable(ind) ==
    IsNumber(ind.RSI) /\ IsNumber(ind.SMA) /\ IsNumber(ind.ATR)

\* A signal whose PUT branch does not look at the ATR: C24_SignalRule must
\* reject it.
Signal_any_atr(rsi, sma, atr, price) ==
    IF IsNumber(rsi) /\ IsNumber(price) /\ IsNumber(sma) /\ IsNumber(atr)
    THEN IF rsi < cfg.RSI_BUY_THRESHOLD /\ price > sma THEN "call"
         ELSE IF rsi > cfg.RSI_SELL_THRESHOLD THEN "put"
         ELSE "none"
    ELSE "none"

\* Lines 252-267: "call", "put" or "none".
Signal(rsi, sma, atr, price) ==
    IF IsNumber(rsi) /\ IsNumber(price) /\ IsNumber(sma) /\ IsNumber(atr)
    THEN IF rsi < cfg.RSI_BUY_THRESHOLD /\ price > sma THEN "call"
         ELSE IF rsi > cfg.RSI_SELL_THRESHOLD /\ atr < cfg.ATR_MAX THEN "put"
         ELSE "none"
    ELSE "none"

\* A sizing without the lower clamp of line 280: C21_AmountClamped must
\* reject it.
TradeAmount_unclamped(pct, bal) ==
    LET q == bal \div 10000
        r == bal % 10000
        whole == pct * q + (pct * r) \div 10000
        rem == (pct * r) % 10000
    IN  IF whole >= MaxAmount THEN MaxAmount
        ELSE Round(whole, rem, 10000)

\* Lines 279-282: pct/100 * balance, at least 1.00, at most 5000.00,
\* rounded to two decimals.  pct * bal / 10000 cents, the product taken in
\* two parts: whole cents and rem/10000 of a cent.
TradeAmount(pct, bal) ==
    LET q == bal \div 10000
        r == bal % 10000
        whole == pct * q + (pct * r) \div 10000
        rem == (pct * r) % 10000
    IN  IF whole < MinAmount THEN MinAmount
        ELSE IF whole >= MaxAmount THEN MaxAmount
        ELSE Round(whole, rem, 10000)

\* An amount in cents in daily_loss's unit.
LossUnits(amt) == amt * 100

\* Line 161: amount * (percent_profit / 100.0), in daily_loss's unit.
Profit(amt, pp) == amt * pp

NoIndicators == [a \in Assets |-> Unread]
\* The assets the scan reads again after position i of the candidate list.
Later(list, i) == { list[j] : j \in (i + 1)..Len(list) }
Range(seq) == { seq[i] : i \in 1..Len(seq) }

InitTrading(configs) ==
    /\ cfg \in configs
    \* TradingState.__init__
    /\ open_orders = <<>>
    /\ last_trade_time = [a \in Assets |-> 0]
    /\ daily_loss = 0
    /\ initial_daily_balance = 0
    /\ last_reset_time = None
    /\ consecutive_losses = 0
    /\ consecutive_wins = 0
    /\ current_trade_percentage = cfg.TRADE_PERCENTAGE
    /\ now = DaySeconds
    /\ cycles = 0
    /\ nextId = 1
    /\ pc = "idle"
    /\ assets = <<>>
    /\ indicators = NoIndicators
    /\ asset_indicators = Unread
    /\ current_time = 0
    /\ current_balance = 0
    /\ balance = 0
    /\ orders_to_remove = <<>>
    /\ oidx = 1
    /\ aidx = 1
    /\ direction = "none"
    /\ amount = 0
    /\ startOrders = {}
    /\ queried = {}
    /\ adjusts = 0
    /\ limitChecks = 0
    /\ submits = 0
    /\ applied = [i \in 1..MaxOrders |-> 0]
    /\ last_outcome = "none"
    /\ caught = FALSE
    /\ last_attempt = [a \in Assets |-> None]
    /\ limit_reported = FALSE

\* The engine alone: no function is probed, main's loop is not followed.
NoProbe == [kind |-> "none"]
NoCtl == [pc |-> "none"]
InitWith(configs) ==
    /\ InitTrading(configs)
    /\ probe = NoProbe
    /\ ctl = NoCtl

\* execute_trades returns to main's loop: its frame is gone.
Return ==
    /\ pc' = "idle"
    /\ assets' = <<>>
    /\ indicators' = NoIndicators
    /\ asset_indicators' = Unread
    /\ current_time' = 0
    /\ current_balance' = 0
    /\ balance' = 0
    /\ orders_to_remove' = <<>>
    /\ oidx' = 1
    /\ aidx' = 1
    /\ direction' = "none"
    /\ amount' = 0
    /\ startOrders' = {}
    /\ queried' = {}
    /\ adjusts' = 0
    /\ limitChecks' = 0
    /\ submits' = 0
    /\ caught' = FALSE
    /\ last_outcome' = "none"

\* One iteration of main's loop up to the first await of execute_trades:
\* the waiting period has passed (not before the first iteration), the
\* candidates are there; execute_trades returns at once when trading is
\* disabled or the list is empty (main does not even call it then).
ExecuteTrades ==
    /\ pc = "idle"
    /\ cycles < MaxCycles
    /\ \E dt \in SleepSteps, al \in AssetLists :
          /\ now' = IF cycles = 0 THEN now ELSE now + dt
          /\ cycles' = cycles + 1
          /\ IF ~ cfg.TRADE_ENABLED \/ al = <<>>
             THEN /\ pc' = "idle"
                  /\ UNCHANGED <<assets, current_time>>
             ELSE /\ pc' = "get_balance"
                  /\ assets' = al
                  /\ current_time' = now'
    /\ UNCHANGED <<tsvars, cfg, nextId, indicators, asset_indicators,
                   current_balance, balance, orders_to_remove, oidx, aidx,
                   direction, amount, cycle, applied, last_outcome>>
    /\ last_attempt' = [a \in Assets |->
                           IF last_attempt[a] # None
                              /\ now' - last_attempt[a] < TRADE_COOLDOWN
                           THEN last_attempt[a] ELSE None]
    /\ UNCHANGED <<aux, limit_reported>>

\* Lines 114-137: the balance arrives; the daily reset; the reconciliation
\* loop starts.
GetBalance ==
    /\ pc = "get_balance"
    /\ \E b \in Balances :
          /\ current_balance' = b
          /\ IF ResetDue(last_reset_time, current_time)
             THEN reset_daily(b, current_time)
             ELSE UNCHANGED <<daily_loss, initial_daily_balance, last_reset_time,
                              consecutive_losses, consecutive_wins,
                              current_trade_percentage>>
    /\ limit_reported' = (limit_reported /\ ~ ResetDue(last_reset_time, current_time))
    /\ orders_to_remove' = <<>>
    /\ oidx' = 1
    /\ startOrders' = Ids(open_orders)
    /\ pc' = "check_win"
    /\ UNCHANGED <<open_orders, last_trade_time, envvars, assets, indicators,
                   asset_indicators, current_time, balance, aidx, direction,
                   amount, queried, adjusts, limitChecks, submits, caught,
                   applied, last_outcome>>
    /\ UNCHANGED <<aux, last_attempt>>

\* Lines 138-187: check_win's reply r for the order the loop is at.
CheckWinReply(r) ==
    /\ pc = "check_win"
    /\ oidx <= Len(open_orders)
    /\ LET order == open_orders[oidx]
           out == Outcome(r)
           ts == IF out = "WIN"
                 THEN update_win(Profit(order.amount, order.percentProfit))
                 ELSE IF out = "LOSS"
                 THEN update_loss(LossUnits(order.amount))
                 ELSE [daily_loss |-> daily_loss,
                       consecutive_losses |-> consecutive_losses,
                       consecutive_wins |-> consecutive_wins]
       IN  /\ daily_loss' = ts.daily_loss
           /\ consecutive_losses' = ts.consecutive_losses
           /\ consecutive_wins' = ts.consecutive_wins
           /\ orders_to_remove' =
                 IF out \in {"WIN", "LOSS", "DRAW", "UNKNOWN", "ERROR"}
                 THEN Append(orders_to_remove, order)
                 ELSE orders_to_remove
           /\ queried' = queried \cup {order.id}
           /\ applied' = IF out \in {"WIN", "LOSS"}
                         THEN [applied EXCEPT ![order.id] = @ + 1]
                         ELSE applied
           /\ last_outcome' = out
    /\ oidx' = oidx + 1
    /\ UNCHANGED <<open_orders, last_trade_time, initial_daily_balance,
                   last_reset_time, current_trade_percentage, envvars, pc,
                   assets, indicators, asset_indicators, current_time,
                   current_balance, balance, aidx, direction, amount,
                   startOrders, adjusts, limitChecks, submits, caught>>
    /\ UNCHANGED <<aux, last_attempt, limit_reported>>

CheckWin == \E r \in CheckWinReplies : CheckWinReply(r)

\* Lines 189-190: the loop is through; the collected orders are removed.
RemoveOrders ==
    /\ pc = "check_win"
    /\ oidx > Len(open_orders)
    /\ open_orders' = remove_all(open_orders, orders_to_remove)
    /\ last_outcome' = "none"
    /\ pc' = "adjust"
    /\ UNCHANGED <<last_trade_time, daily_loss, initial_daily_balance,
                   last_reset_time, consecutive_losses, consecutive_wins,
                   current_trade_percentage, envvars, locals, cycle, applied>>
    /\ UNCHANGED <<aux, last_attempt, limit_reported>>

\* A cycle that goes from the removal straight to the limit check:
\* C4_PhaseOrder must reject it.
AdjustTradePercentage_skipped ==
    /\ pc = "adjust"
    /\ pc' = "check_limit"
    /\ UNCHANGED <<tsvars, envvars, locals, cycle, applied, last_outcome>>
    /\ UNCHANGED <<aux, last_attempt, limit_reported>>

\* Line 193
AdjustTradePercentage ==
    /\ pc = "adjust"
    /\ current_trade_percentage' =
          adjust_trade_percentage(current_trade_percentage,
                                  consecutive_losses, consecutive_wins)
    /\ adjusts' = adjusts + 1
    /\ pc' = "check_limit"
    /\ UNCHANGED <<open_orders, last_trade_time, daily_loss,
                   initial_daily_balance, last_reset_time, consecutive_losses,
                   consecutive_wins, envvars, locals, startOrders, queried,
                   limitChecks, submits, caught, applied, last_outcome>>
    /\ UNCHANGED <<aux, last_attempt, limit_reported>>

\* Lines 196-208: the daily loss limit, then the balance the scan sizes
\* with; either may end the cycle.
CheckDailyLossLimit ==
    /\ pc = "check_limit"
    /\ IF ~ check_daily_loss_limit(daily_loss, initial_daily_balance)
       THEN Return
       ELSE IF ~ BalanceUsable(current_balance)
       THEN Return
       ELSE /\ limitChecks' = limitChecks + 1
            /\ balance' = current_balance
            /\ aidx' = 1
            /\ pc' = "scan"
            /\ UNCHANGED <<assets, indicators, asset_indicators, current_time,
                           current_balance, orders_to_remove, oidx, direction,
                           amount, startOrders, queried, adjusts, submits,
                           caught, last_outcome>>
    /\ limit_reported' =
          (limit_reported \/ ~ check_daily_loss_limit(daily_loss, initial_daily_balance))
    /\ UNCHANGED <<tsvars, envvars, applied>>
    /\ UNCHANGED <<aux, last_attempt>>

\* Lines 211-231: the next candidate, up to the await of its price; the
\* loop's end returns.
Scan ==
    /\ pc = "scan"
    /\ IF aidx > Len(assets)
       THEN Return
       ELSE /\ LET asset == assets[aidx] IN
               IF HasOpenOrder(open_orders, asset)
               THEN /\ aidx' = aidx + 1
                    /\ UNCHANGED <<pc, current_time, indicators, asset_indicators>>
               ELSE /\ current_time' = now
                    /\ IF InCooldown(last_trade_time, asset, now)
                       THEN /\ aidx' = aidx + 1
                            /\ UNCHANGED <<pc, indicators, asset_indicators>>
                       ELSE \E ind \in IndicatorCases :
                               /\ indicators[asset] \in {Unread, ind}
                               /\ indicators' =
                                     IF asset \in Later(assets, aidx)
                                     THEN [indicators EXCEPT ![asset] = ind]
                                     ELSE indicators
                               /\ IF IndicatorsUsable(ind)
                                  THEN /\ pc' = "get_price"
                                       /\ asset_indicators' = ind
                                       /\ UNCHANGED aidx
                                  ELSE /\ aidx' = aidx + 1
                                       /\ UNCHANGED <<pc, asset_indicators>>
            /\ UNCHANGED <<assets, current_balance, balance, orders_to_remove,
                           oidx, direction, amount, cycle, last_outcome>>
    /\ UNCHANGED <<tsvars, envvars, applied>>
    /\ UNCHANGED <<aux, last_attempt, limit_reported>>

\* Lines 233-290: what the iteration does with the price reply p (a raising
\* call is caught at line 248 and the loop continues): the signal, the
\* amount.
PriceHandled(p) ==
    /\ LET ind == asset_indicators
           sig == IF p.raised \/ ~ IsNumber(p.price) THEN "none"
                  ELSE Signal(ind.RSI, ind.SMA, ind.ATR, p.price)
           amt == TradeAmount(current_trade_percentage, balance)
       IN  IF sig = "none" \/ ~ BalanceUsable(balance) \/ amt < MinAmount
           THEN /\ aidx' = aidx + 1
                /\ pc' = "scan"
                /\ UNCHANGED <<direction, amount>>
           ELSE /\ direction' = sig
                /\ amount' = amt
                /\ pc' = "buy"
                /\ UNCHANGED aidx
    /\ asset_indicators' = Unread
    /\ caught' = (caught \/ p.raised)
    /\ UNCHANGED <<tsvars, envvars, assets, indicators, current_time,
                   current_balance, balance, orders_to_remove, oidx,
                   startOrders, queried, adjusts, limitChecks, submits,
                   applied, last_outcome, aux, last_attempt,
                   limit_reported>>

\* A price step without the try of line 233: a raising call ends
\* execute_trades.  C26_ScanSurvivesExceptions must reject it.
GetRealtimePriceReply_uncaught(p) ==
    /\ pc = "get_price"
    /\ IF p.raised
       THEN Return /\ UNCHANGED <<tsvars, envvars, applied, aux, last_attempt,
                                 limit_reported>>
       ELSE PriceHandled(p)

\* client.get_realtime_price's reply p.
GetRealtimePriceReply(p) ==
    /\ pc = "get_price"
    /\ PriceHandled(p)

GetRealtimePrice == \E p \in PriceReplies : GetRealtimePriceReply(p)

\* An id test that every response passes: C19_OrdersCarryBrokerId must
\* reject it.
HasId_any(r) == TRUE

\* Lines 301-302: the response carries an order id.
HasId(r) == r.hasId

\* Lines 292-333: client.buy's reply r.
BuyReplied(r) ==
    /\ pc = "buy"
    /\ HasId(r) => nextId <= MaxOrders
    /\ LET asset == assets[aidx]
           accepted == r.kind = "dict" /\ r.success
           order == [id |-> nextId, brokerId |-> r.hasId, asset |-> asset, direction |-> direction,
                     amount |-> amount,
                     percentProfit |-> IF IsNumber(r.percentProfit)
                                       THEN r.percentProfit ELSE 0]
       IN  IF r.kind = "raise"
           THEN /\ last_trade_time' = update_trade_time(last_trade_time, asset, current_time)
                /\ UNCHANGED <<open_orders, nextId, balance>>
           ELSE IF accepted /\ HasId(r)
           THEN /\ open_orders' = add_order(open_orders, order)
                /\ last_trade_time' = update_trade_time(last_trade_time, asset, current_time)
                /\ nextId' = nextId + 1
                /\ balance' = IF IsNumber(r.accountBalance)
                              THEN r.accountBalance
                              ELSE balance - amount
           ELSE IF accepted
           THEN /\ last_trade_time' = update_trade_time(last_trade_time, asset, current_time)
                /\ UNCHANGED <<open_orders, nextId, balance>>
           ELSE UNCHANGED <<open_orders, last_trade_time, nextId, balance>>
    /\ submits' = submits + 1
    /\ last_attempt' = [last_attempt EXCEPT ![assets[aidx]] = current_time]
    /\ caught' = (caught \/ r.kind = "raise")
    /\ aidx' = aidx + 1
    /\ direction' = "none"
    /\ amount' = 0
    /\ pc' = "scan"
    /\ UNCHANGED <<daily_loss, initial_daily_balance, last_reset_time,
                   consecutive_losses, consecutive_wins,
                   current_trade_percentage, cfg, now, cycles, assets,
                   indicators, asset_indicators, current_time, current_balance,
                   orders_to_remove, oidx, startOrders, queried, adjusts,
                   limitChecks, applied, last_outcome>>
    /\ UNCHANGED <<aux, limit_reported>>

Buy == \E r \in BuyReplies : BuyReplied(r)

Next ==
    \/ ExecuteTrades
    \/ GetBalance
    \/ CheckWin
    \/ RemoveOrders
    \/ AdjustTradePercentage
    \/ CheckDailyLossLimit
    \/ Scan
    \/ GetRealtimePrice
    \/ Buy

Init == InitWith(DefaultConfigs)
InitTight == InitWith(TightConfigs)
InitWide == InitWith(WideConfigs)

\* The engine under the default settings, under the tight bounds and under
\* the out-of-range base percentage.
Spec == Init /\ [][Next]_vars
SpecTight == InitTight /\ [][Next]_vars
InitLowLimit == InitWith(LowLimitConfigs)
SpecLowLimit == InitLowLimit /\ [][Next]_vars
SpecWide == InitWide /\ [][Next]_vars

\* ------------------------------------------------- the sizing on its own
\* Lines 279-282 applied to a percentage and a positive balance.
trading ==
    <<tsvars, envvars, pc, locals, cycle, applied, last_outcome, last_attempt,
      limit_reported>>
TradingOn == { Config(TRUE, 500, 200, 500, 10, 2, 2) }

\* Percentages between 2% and 100%, balances from a cent to 2,000,000.00,
\* among them products that fall under 1.00, over 5000.00 and on half
\* cents.
SizingPercentages == {200, 250, 333, 400, 500, 1000, 10000}
SizingBalances ==
    { 1, 50, 99, 100, 1999, 2000, 2001, 3003, 10000, 33333, 100000, 100010,
      100030, 119900, 9999999, 10000000, 200000000 }

InitSizing ==
    /\ InitTrading(TradingOn)
    /\ ctl = NoCtl
    /\ probe \in { [kind |-> "size", pct |-> p, balance |-> b, amount |-> None] :
                      p \in SizingPercentages, b \in SizingBalances }

Size ==
    /\ probe.kind = "size"
    /\ probe.amount = None
    /\ probe' = [probe EXCEPT !.amount = TradeAmount(probe.pct, probe.balance)]
    /\ UNCHANGED <<trading, ctl>>

SpecSizing == InitSizing /\ [][Size]_vars

\* ------------------------------------------------- the signal on its own
\* Lines 252-267 applied to numeric indicators and a numeric price: RSI
\* under, at and over both thresholds, the price under, at and over the
\* SMA, the ATR under, at and over ATR_MAX; under the default thresholds
\* and under thresholds set so that both conditions can hold at once
\* (RSI_BUY_THRESHOLD 65, RSI_SELL_THRESHOLD 35).
SignalConfigs ==
    TradingOn \cup
    { WithThresholds(c, RSI_SELL_THRESHOLD, RSI_BUY_THRESHOLD) : c \in TradingOn }
SignalRSIs == {0, 34, 35, 36, 50, 64, 65, 66, 100}
SignalPrices == {100, 105, 110}
SignalSMAs == {105}
SignalATRs == {0, 4, 5, 6}

InitSignal ==
    /\ InitTrading(SignalConfigs)
    /\ ctl = NoCtl
    /\ probe \in { [kind |-> "signal", rsi |-> r, sma |-> m, atr |-> a,
                    price |-> p, direction |-> "unset"] :
                      r \in SignalRSIs, m \in SignalSMAs, a \in SignalATRs,
                      p \in SignalPrices }

Evaluate ==
    /\ probe.kind = "signal"
    /\ probe.direction = "unset"
    /\ probe' = [probe EXCEPT
                   !.direction = Signal(probe.rsi, probe.sma, probe.atr, probe.price)]
    /\ UNCHANGED <<trading, ctl>>

SpecSignal == InitSignal /\ [][Evaluate]_vars

\* ------------------------------------------------------ main and reconnect
\* The controller of main.py: the cycle loop of main() and reconnect(), one
\* step per await.  ctl.pc is the position, ctl.cycle the number of the
\* running cycle, ctl.raised the call whose exception the running cycle caught
\* ("none" if none), ctl.attempt / ctl.delay / ctl.reason the locals of
\* reconnect, ctl.slept the delays reconnect has slept so far.  ctl.errors
\* counts the cycles that ended in the except clause, ctl.recovered the
\* calls of reconnect that returned True.
max_attempts == 5
reconnect_delay == 5

CallOutcomes == {"ok", "raise"}
\* client.connect() answers (True, _), (False, reason), True, False, a value of
\* another type, or raises asyncio.TimeoutError or another exception.
ConnectOutcomes == {"ok", "failed", "unexpected", "timeout", "exception"}

AtCycle(n, errors, recovered) ==
    [pc |-> "list", cycle |-> n, raised |-> "none",
     attempt |-> 0, delay |-> 0, reason |-> "none", slept |-> <<>>,
     errors |-> errors, recovered |-> recovered]

\* `except Exception` of the cycle: the error is logged and control falls
\* through to the waiting period.
OnCycleError_exit == "exited"

OnCycleError == "wait"

\* `for attempt in range(1, max_attempts + 1)` with `if attempt <
\* max_attempts: sleep`: is there another attempt after this one.
MoreAttempts_always(attempt) == TRUE

MoreAttempts(attempt) == attempt < max_attempts

InitMain ==
    /\ InitTrading(TradingOn)
    /\ probe = NoProbe
    /\ ctl = AtCycle(1, 0, 0)

\* A call of the try body that may raise: on "raise" the except clause takes
\* over, otherwise the cycle goes on at `next`.
Call(here, outcome, next) ==
    /\ ctl.pc = here
    /\ ctl' = IF outcome = "raise"
              THEN [ctl EXCEPT !.pc = OnCycleError, !.raised = here,
                               !.errors = @ + 1]
              ELSE [ctl EXCEPT !.pc = next]
    /\ UNCHANGED <<trading, probe>>

\* open_assets_details = await list_open_otc_assets(client); with no asset to
\* trade the cycle skips indicators and trading.
ListOpenAssets ==
    \E outcome \in CallOutcomes, tradable \in BOOLEAN :
        Call("list", outcome, IF tradable THEN "indicators" ELSE "probe")

\* initial_indicators_log = await calculate_indicators(client, assets)
CalculateIndicators ==
    \E outcome \in CallOutcomes : Call("indicators", outcome, "trade")

\* await execute_trades(client, assets_for_trade, initial_indicators_log)
RunExecuteTrades ==
    \E outcome \in CallOutcomes : Call("trade", outcome, "probe")

\* if not await check_connection(client): if not await reconnect(client)
CheckConnection ==
    /\ ctl.pc = "probe"
    /\ \E alive \in BOOLEAN :
        ctl' = IF alive
               THEN [ctl EXCEPT !.pc = "wait"]
               ELSE [ctl EXCEPT !.pc = "connect", !.attempt = 1,
                                !.delay = reconnect_delay,
                                !.reason = "none", !.slept = <<>>]
    /\ UNCHANGED <<trading, probe>>

\* One pass of reconnect's loop up to its sleep: client.connect(), the
\* balance read after a success (its exception is caught) and `return True`;
\* after a failure either the sleep before the next attempt or, on the last
\* attempt, `return False`, on which main returns.
ConnectReply(outcome) ==
    /\ ctl.pc = "connect"
    /\ ctl' = IF outcome = "ok"
              THEN [ctl EXCEPT !.pc = "wait", !.recovered = @ + 1]
              ELSE IF MoreAttempts(ctl.attempt)
              THEN [ctl EXCEPT !.pc = "backoff", !.reason = outcome]
              ELSE [ctl EXCEPT !.pc = "exited", !.reason = outcome]
    /\ UNCHANGED <<trading, probe>>

Connect == \E outcome \in ConnectOutcomes : ConnectReply(outcome)

\* await asyncio.sleep(delay), then the next attempt.
Backoff ==
    /\ ctl.pc = "backoff"
    /\ ctl' = [ctl EXCEPT !.pc = "connect", !.attempt = @ + 1,
                          !.slept = Append(@, ctl.delay)]
    /\ UNCHANGED <<trading, probe>>

\* The waiting period, then the next cycle.
Wait ==
    /\ ctl.pc = "wait"
    /\ ctl.cycle < MaxCycles
    /\ ctl' = AtCycle(ctl.cycle + 1, ctl.errors, ctl.recovered)
    /\ UNCHANGED <<trading, probe>>

NextMain ==
    \/ ListOpenAssets
    \/ CalculateIndicators
    \/ RunExecuteTrades
    \/ CheckConnection
    \/ Connect
    \/ Backoff
    \/ Wait

SpecMain == InitMain /\ [][NextMain]_vars

\* ------------------------------------------------------ the waiting period
\* Lines 362-414 of main.py on their own, in whole seconds: probe holds the
\* duration of the cycle that ended, wait_time_needed, the time passed since
\* start_wait_time and the position (cycle_end, waiting, next_cycle).
sleep_interval == 10
BreakAt == 1

CycleDurations == {0, 1, 9, 150, 289, 290, 291, 298, 299, 300, 301, 450}

\* asyncio.sleep returns after the requested time or later.
SleepLateness == {0, 1}

InitWait ==
    /\ InitTrading(TradingOn)
    /\ ctl = NoCtl
    /\ probe \in { [kind |-> "wait", pc |-> "cycle_end", cycle_duration |-> d,
                    wait_time_needed |-> 0, time_passed_in_wait |-> 0] :
                      d \in CycleDurations }

\* wait_time_needed = max(0, TRADE_COOLDOWN - cycle_duration); the loop is
\* entered only if it is positive.
StartWait ==
    /\ probe.kind = "wait"
    /\ probe.pc = "cycle_end"
    /\ LET needed == Max(0, TRADE_COOLDOWN - probe.cycle_duration)
       IN  probe' = [probe EXCEPT !.wait_time_needed = needed,
                                  !.pc = IF needed > 0 THEN "waiting"
                                                       ELSE "next_cycle"]
    /\ UNCHANGED <<trading, ctl>>

\* One pass of the inner `while True`: break at remaining_wait <= 1.0, else
\* sleep up to the next tick of sleep_interval or for the remaining time.
WaitLoop ==
    /\ probe.kind = "wait"
    /\ probe.pc = "waiting"
    /\ LET remaining_wait ==
               Max(0, probe.wait_time_needed - probe.time_passed_in_wait)
           time_until_next_log_tick ==
               sleep_interval - (probe.time_passed_in_wait % sleep_interval)
           sleep_duration == Min(time_until_next_log_tick, remaining_wait)
       IN  IF remaining_wait <= BreakAt
           THEN probe' = [probe EXCEPT !.pc = "next_cycle"]
           ELSE \E late \in SleepLateness :
                  probe' = [probe EXCEPT !.time_passed_in_wait =
                                              @ + sleep_duration + late]
    /\ UNCHANGED <<trading, ctl>>

NextWait ==
    \/ StartWait
    \/ WaitLoop

SpecWait == InitWait /\ [][NextWait]_vars

\* ------------------------------------------------------ QuotexBot.connect
\* core.py lines 18-43 on their own.  settings.MAX_RETRIES and
\* settings.INITIAL_BACKOFF are read from the settings module, which gives
\* them no value of its own: they are inputs here.  probe holds them, the
\* locals attempt and backoff, the delays slept so far, the kind of the
\* latest failure and the position (start, connect, sleep, returned, raised).
RetryLimits == {0, 1, 2, 3, 4}
InitialBackoffs == {1, 2, 5}

\* await self.client.connect(): (True, _), (False, reason), or an exception
\* (a result that does not unpack into two values raises inside the try).
QuotexConnectOutcomes == {"connected", "refused", "exception"}

\* A backoff that does not grow: C38_ConnectRetries must reject it.
NextBackoff_fixed(backoff) == backoff

\* Line 41: backoff *= 2
NextBackoff(backoff) == backoff * 2

InitConnect ==
    /\ InitTrading(TradingOn)
    /\ ctl = NoCtl
    /\ probe \in { [kind |-> "connect", pc |-> "start", MAX_RETRIES |-> m,
                    INITIAL_BACKOFF |-> b, attempt |-> 0, backoff |-> 0,
                    slept |-> <<>>, failure |-> "none"] :
                      m \in RetryLimits, b \in InitialBackoffs }

\* Lines 19-20: backoff = INITIAL_BACKOFF, then the first pass of the loop;
\* an empty range goes straight to the RuntimeError of line 43.
EnterConnect ==
    /\ probe.kind = "connect"
    /\ probe.pc = "start"
    /\ probe' = IF probe.MAX_RETRIES >= 1
                THEN [probe EXCEPT !.pc = "connect", !.attempt = 1,
                                   !.backoff = probe.INITIAL_BACKOFF]
                ELSE [probe EXCEPT !.pc = "raised",
                                   !.backoff = probe.INITIAL_BACKOFF]
    /\ UNCHANGED <<trading, ctl>>

\* Lines 21-43: one attempt.  Connected: the account is selected (its
\* exception is caught) and connect returns; otherwise the sleep before the
\* next attempt or, after the last one, RuntimeError.
ConnectAttempt(outcome) ==
    /\ probe.kind = "connect"
    /\ probe.pc = "connect"
    /\ probe' = IF outcome = "connected"
                THEN [probe EXCEPT !.pc = "returned"]
                ELSE IF probe.attempt < probe.MAX_RETRIES
                THEN [probe EXCEPT !.pc = "sleep", !.failure = outcome]
                ELSE [probe EXCEPT !.pc = "raised", !.failure = outcome]
    /\ UNCHANGED <<trading, ctl>>

QuotexConnect == \E outcome \in QuotexConnectOutcomes : ConnectAttempt(outcome)

\* Lines 40-41: await asyncio.sleep(backoff); backoff *= 2; next attempt.
ConnectSleep ==
    /\ probe.kind = "connect"
    /\ probe.pc = "sleep"
    /\ probe' = [probe EXCEPT !.pc = "connect", !.attempt = @ + 1,
                              !.slept = Append(@, probe.backoff),
                              !.backoff = NextBackoff(@)]
    /\ UNCHANGED <<trading, ctl>>

NextConnect ==
    \/ EnterConnect
    \/ QuotexConnect
    \/ ConnectSleep

SpecConnect == InitConnect /\ [][NextConnect]_vars

\* ---------------------------------------------------- calculate_indicators
\* The cache of indicators.py on its own: probe holds the timeframe, the
\* number of calls made, the time and the asset set of the latest call and
\* of the one before it, and whether the latest call went on to fetch candles
\* and compute (fetched) or returned a cached result.
Timeframes == {60, 300}
AssetSets == { {"EURUSD_otc"}, {"EURUSD_otc", "GBPUSD_otc"} }
\* The time between two calls.
CallGaps == {0, 60, 299, 300, 1500}

\* cache_key = f"{timeframe}_{','.join(sorted(assets))}"
CacheKey(timeframe, asset_set) == [timeframe |-> timeframe, assets |-> asset_set]

\* get_indicator_cache: a new, empty TTLCache with ttl = timeframe * 5.
get_indicator_cache(timeframe) == [ttl |-> timeframe * 5, entries |-> {}]

\* `cache_key in indicator_cache` at time t: an entry of that key that has
\* not expired.
InCache(cache, key, t) ==
    \E entry \in cache.entries : entry.key = key /\ t < entry.expires

InitCache ==
    /\ InitTrading(TradingOn)
    /\ ctl = NoCtl
    /\ probe \in { [kind |-> "cache", timeframe |-> tf, calls |-> 0,
                    time |-> 0, assets |-> {}, prev_time |-> 0,
                    prev_assets |-> {}, fetched |-> FALSE] :
                      tf \in Timeframes }

\* One call of calculate_indicators with a non-empty asset list: the cache
\* is created by the call itself (line 29), looked up (line 35), and on a
\* miss the candles are fetched, the indicators computed and stored in that
\* cache (line 178), which goes out of scope at the return.
CalculateIndicatorsCall ==
    /\ probe.kind = "cache"
    /\ probe.calls < MaxCycles
    /\ \E asset_set \in AssetSets, gap \in CallGaps :
        LET t == IF probe.calls = 0 THEN 0 ELSE probe.time + gap
            indicator_cache == get_indicator_cache(probe.timeframe)
            cache_key == CacheKey(probe.timeframe, asset_set)
        IN  probe' = [probe EXCEPT !.calls = @ + 1,
                                   !.prev_time = probe.time,
                                   !.prev_assets = probe.assets,
                                   !.time = t,
                                   !.assets = asset_set,
                                   !.fetched = ~ InCache(indicator_cache, cache_key, t)]
    /\ UNCHANGED <<trading, ctl>>

SpecCache == InitCache /\ [][CalculateIndicatorsCall]_vars

\* ------------------------------------------------------------- the stop
\* The positions of execute_trades at which it is suspended in an await:
\* get_balance, check_win for the order at oidx, get_realtime_price, buy.
AtAwait ==
    \/ pc \in {"get_balance", "get_price", "buy"}
    \/ pc = "check_win" /\ oidx <= Len(open_orders)

\* Ctrl+C while asyncio.run(main()) runs: the task of main is cancelled, and
\* asyncio.CancelledError, which is no Exception and so passes every
\* `except Exception` of execute_trades and main, is raised at the await the
\* task is suspended in.  Nothing after that await runs.  ctl records the
\* position of the stop and, for a stop inside `await client.buy(...)`,
\* whether the broker had accepted the order of the request in flight.
Stopped(at, accepted) == [pc |-> "stopped", at |-> at, accepted |-> accepted]

Cancel ==
    /\ ctl = NoCtl
    /\ pc = "idle" \/ AtAwait
    /\ \E accepted \in BOOLEAN :
        /\ accepted => pc = "buy"
        /\ ctl' = Stopped(pc, accepted)
    /\ pc' = "stopped"
    /\ UNCHANGED <<tsvars, envvars, locals, cycle, applied, last_outcome,
                   last_attempt, limit_reported, probe>>

NextStop ==
    \/ Next
    \/ Cancel

SpecStop == Init /\ [][NextStop]_vars

\* ------------------------------------------------------------- properties
ScanPcs == {"scan", "get_price", "buy"}

\* The condition of the circuit breaker, as the specification states it:
\* initialDailyBalance > 0 and dailyLoss / initialDailyBalance * 100 >=
\* DAILY_LOSS_LIMIT (daily_loss counts 1/100 cents, the balance cents).
BreakerEngaged ==
    /\ initial_daily_balance > 0
    /\ daily_loss >= cfg.DAILY_LOSS_LIMIT * initial_daily_balance

\* C1: in a cycle where, after reconciliation, the breaker's condition
\* holds, no order is submitted and none is added to open_orders: the step
\* of the limit check ends the cycle with open_orders as it was, every order
\* open at the cycle's start has been queried by then, and the scan, the
\* price request and client.buy are never reached with the condition true.
C1_BreakerStopsSubmissions ==
    [][ /\ (pc = "check_limit" /\ BreakerEngaged) =>
              /\ queried = startOrders
              /\ submits = 0
              /\ Ids(open_orders) \subseteq startOrders
              /\ pc' = "idle"
              /\ open_orders' = open_orders
              /\ nextId' = nextId
        /\ pc' \in ScanPcs => ~ BreakerEngaged' ]_vars

\* C1's case: the limit check is reached with the breaker's condition true
\* after the reconciliation of the orders that were open.
C1_Witness ==
    /\ pc = "check_limit"
    /\ BreakerEngaged
    /\ startOrders # {}
    /\ queried = startOrders

\* C2: no two open orders are on the same asset, and the scan passes over
\* an asset that has an open order, whatever its cooldown, without a price
\* request or a submission.
C2_OneOrderPerAsset ==
    [][ /\ \A i, j \in 1..Len(open_orders') :
              i # j => open_orders'[i].asset # open_orders'[j].asset
        /\ ( /\ pc = "scan"
             /\ aidx <= Len(assets)
             /\ \E i \in 1..Len(open_orders) : open_orders[i].asset = assets[aidx] )
           => /\ pc' = "scan"
              /\ aidx' = aidx + 1
              /\ open_orders' = open_orders
              /\ submits' = submits ]_vars

\* C2's case: the scan is at an asset that occurs twice in the candidate
\* list, has an open order and is past its cooldown.
C2_Witness ==
    /\ pc = "scan"
    /\ Len(assets) = 2
    /\ assets[1] = assets[2]
    /\ aidx <= 2
    /\ \E i \in 1..Len(open_orders) : open_orders[i].asset = assets[aidx]
    /\ now - last_trade_time[assets[aidx]] >= TRADE_COOLDOWN

\* C3: every submission attempt sets last_trade_time[asset] to the attempt
\* time, whatever client.buy answers.
C3_EveryAttemptStartsCooldown ==
    [][ pc = "buy" => last_trade_time'[assets[aidx]] = current_time ]_vars

\* C4: the phases of a cycle run in order: when the adjustment runs every
\* order open at the cycle's start has been queried and the collected ones
\* are out of open_orders; the adjustment has run once when the limit is
\* checked; both have run when the scan starts, and no submission happens
\* before.
C4_PhaseOrder ==
    /\ pc \in {"adjust", "check_limit"} \cup ScanPcs =>
          /\ queried = startOrders
          /\ \A i \in 1..Len(orders_to_remove) :
                orders_to_remove[i].id \notin Ids(open_orders)
    /\ pc \in {"idle", "get_balance", "check_win", "adjust"} => adjusts = 0
    /\ pc \in {"check_limit"} \cup ScanPcs => adjusts = 1
    /\ pc \in ScanPcs <=> limitChecks = 1
    /\ pc \notin ScanPcs => submits = 0

\* C4's case: a submission is under way in a cycle that reconciled and
\* removed an order.
C4_Witness ==
    /\ pc = "buy"
    /\ startOrders # {}
    /\ orders_to_remove # <<>>

\* C5: no order's result is applied to daily_loss and the streaks more than
\* once; once the removal has run an order whose result was applied is out
\* of open_orders, and removing a collected order again changes nothing.
C5_NoDoubleCounting ==
    /\ \A id \in 1..MaxOrders : applied[id] <= 1
    /\ pc # "check_win" =>
          \A id \in 1..MaxOrders : applied[id] >= 1 => id \notin Ids(open_orders)
    /\ pc \in {"adjust", "check_limit"} \cup ScanPcs =>
          \A i \in 1..Len(orders_to_remove) :
             remove_order(open_orders, orders_to_remove[i]) = open_orders

\* C5's case: a later cycle has reconciled its open orders after the
\* result of an earlier order was applied and the order removed.
C5_Witness ==
    /\ pc = "check_win"
    /\ oidx > Len(open_orders)
    /\ startOrders # {}
    /\ \E id \in 1..MaxOrders : applied[id] = 1 /\ id \notin startOrders

\* C6: after each call of adjust_trade_percentage, hence wherever an amount
\* is computed, current_trade_percentage lies between TRADE_PERCENTAGE_MIN
\* and TRADE_PERCENTAGE_MAX, also when the base percentage does not.
C6_PercentageWithinBounds ==
    pc \in {"check_limit"} \cup ScanPcs =>
       /\ cfg.TRADE_PERCENTAGE_MIN <= current_trade_percentage
       /\ current_trade_percentage <= cfg.TRADE_PERCENTAGE_MAX

\* C7: an adjustment with consecutive_losses at or over its threshold
\* yields max(TRADE_PERCENTAGE_MIN, old * 0.8) for every old percentage,
\* the minimum included.
C7_LossStreakReduces ==
    [][ ( /\ pc = "adjust"
          /\ consecutive_losses >= cfg.CONSECUTIVE_LOSSES_THRESHOLD )
        => current_trade_percentage' =
              Max(cfg.TRADE_PERCENTAGE_MIN, (current_trade_percentage * 8) \div 10)
      ]_vars

\* C8: an adjustment with consecutive_losses under its threshold and
\* consecutive_wins at or over its own yields
\* min(TRADE_PERCENTAGE_MAX, old * 1.2) for every old percentage, the
\* maximum included.
C8_WinStreakRaises ==
    [][ ( /\ pc = "adjust"
          /\ consecutive_losses < cfg.CONSECUTIVE_LOSSES_THRESHOLD
          /\ consecutive_wins >= cfg.CONSECUTIVE_WINS_THRESHOLD )
        => current_trade_percentage' =
              Min(cfg.TRADE_PERCENTAGE_MAX, (current_trade_percentage * 12) \div 10)
      ]_vars

\* The orders collected in this cycle's reconciliation stay collected while
\* it runs and are out of open_orders when it ends.
RemovedAtEnd ==
    /\ (pc = "check_win" /\ pc' = "check_win") =>
          Range(orders_to_remove) \subseteq Range(orders_to_remove')
    /\ (pc = "check_win" /\ pc' = "adjust") =>
          /\ orders_to_remove' = orders_to_remove
          /\ \A i \in 1..Len(orders_to_remove) :
                orders_to_remove[i].id \notin Ids(open_orders')

\* C9: when check_win reports an order finished and won (game_state 1, win
\* True), daily_loss falls by amount * percentProfit / 100,
\* consecutive_wins grows by one, consecutive_losses becomes 0, and the
\* order is out of open_orders when the reconciliation ends.
C9_WinApplied ==
    [][ /\ \A r \in CheckWinReplies :
              ( /\ r.type = "dict" /\ r.game_state = 1 /\ r.win = "True"
                /\ CheckWinReply(r) )
              => /\ daily_loss' = daily_loss
                        - open_orders[oidx].amount * open_orders[oidx].percentProfit
                 /\ consecutive_wins' = consecutive_wins + 1
                 /\ consecutive_losses' = 0
                 /\ open_orders[oidx] \in Range(orders_to_remove')
        /\ RemovedAtEnd ]_vars

\* C9's case: the reconciliation has ended after a won order, which broke
\* a losing streak, was applied.
C9_Witness ==
    /\ pc = "adjust"
    /\ consecutive_wins = 1
    /\ consecutive_losses = 0
    /\ Len(orders_to_remove) = 2
    /\ applied[orders_to_remove[1].id] = 1
    /\ applied[orders_to_remove[2].id] = 1
    /\ daily_loss = orders_to_remove[1].amount * 100
                    - orders_to_remove[2].amount * orders_to_remove[2].percentProfit

\* C10: when check_win reports an order finished and lost (game_state 1,
\* win False), daily_loss grows by the order's amount, consecutive_losses
\* grows by one, consecutive_wins becomes 0, and the order is out of
\* open_orders when the reconciliation ends.
C10_LossApplied ==
    [][ /\ \A r \in CheckWinReplies :
              ( /\ r.type = "dict" /\ r.game_state = 1 /\ r.win = "False"
                /\ CheckWinReply(r) )
              => /\ daily_loss' = daily_loss + open_orders[oidx].amount * 100
                 /\ consecutive_losses' = consecutive_losses + 1
                 /\ consecutive_wins' = 0
                 /\ open_orders[oidx] \in Range(orders_to_remove')
        /\ RemovedAtEnd ]_vars

\* C10's case: the reconciliation has ended after a lost order, which
\* broke a winning streak, was applied.
C10_Witness ==
    /\ pc = "adjust"
    /\ consecutive_losses = 1
    /\ consecutive_wins = 0
    /\ Len(orders_to_remove) = 2
    /\ applied[orders_to_remove[1].id] = 1
    /\ applied[orders_to_remove[2].id] = 1
    /\ daily_loss = orders_to_remove[2].amount * 100
                    - orders_to_remove[1].amount * orders_to_remove[1].percentProfit

\* C11: when check_win reports an order finished as a draw (game_state 1,
\* win None, profitAmount 0), daily_loss and both streaks stay as they are
\* and the order is out of open_orders when the reconciliation ends.
C11_DrawOnlyRemoves ==
    [][ /\ \A r \in CheckWinReplies :
              ( /\ r.type = "dict" /\ r.game_state = 1
                /\ r.win = "None" /\ r.profitAmount = 0
                /\ CheckWinReply(r) )
              => /\ UNCHANGED <<daily_loss, consecutive_wins, consecutive_losses>>
                 /\ open_orders[oidx] \in Range(orders_to_remove')
        /\ RemovedAtEnd ]_vars

\* C11's case: the latest reply was a draw, for an order placed with a
\* nonzero amount while the loss and a streak stand at nonzero values.
C11_Witness ==
    /\ pc = "check_win"
    /\ last_outcome = "DRAW"
    /\ open_orders[oidx - 1] \in Range(orders_to_remove)
    /\ daily_loss # 0
    /\ consecutive_wins + consecutive_losses > 0

\* C12: when check_win raises, or returns False or a value of another
\* non-dict type, the order is collected and out of open_orders when the
\* reconciliation ends, and daily_loss and both streaks stay as they are.
C12_FailedQueryRemoves ==
    [][ /\ \A r \in CheckWinReplies :
              ( /\ r.type \in {"raise", "False", "str"}
                /\ CheckWinReply(r) )
              => /\ UNCHANGED <<daily_loss, consecutive_wins, consecutive_losses>>
                 /\ open_orders[oidx] \in Range(orders_to_remove')
        /\ RemovedAtEnd ]_vars

\* C13: an order whose query reports an unfinished game is not collected
\* and daily_loss and the streaks stay as they are; an order is collected
\* only by its own query reporting a finished game or raising, and an order
\* leaves open_orders only in the removal of the collected ones.
C13_OpenOrderStays ==
    [][ /\ \A r \in CheckWinReplies :
              CheckWinReply(r) =>
                 /\ (r.type = "dict" /\ r.game_state # 1) =>
                       UNCHANGED <<daily_loss, consecutive_wins,
                                   consecutive_losses, orders_to_remove>>
                 /\ orders_to_remove' # orders_to_remove =>
                       /\ r.type = "raise" \/ (r.type = "dict" /\ r.game_state = 1)
                       /\ orders_to_remove' = Append(orders_to_remove, open_orders[oidx])
        /\ \A i \in 1..Len(open_orders) :
              open_orders[i] \notin Range(open_orders') =>
                 /\ pc = "check_win" /\ pc' = "adjust"
                 /\ open_orders[i] \in Range(orders_to_remove) ]_vars

\* C13's case: in a cycle that began with the daily reset, the latest
\* query reported an unfinished game and its order is not collected.
C13_Witness ==
    /\ pc = "check_win"
    /\ last_outcome = "OPEN"
    /\ cycles >= 2
    /\ last_reset_time = current_time
    /\ open_orders[oidx - 1] \notin Range(orders_to_remove)

\* C14: consecutive_wins and consecutive_losses are never both over zero;
\* right after a WIN is applied consecutive_losses is 0, right after a LOSS
\* consecutive_wins is 0.
C14_StreaksExclusive ==
    /\ ~ (consecutive_wins > 0 /\ consecutive_losses > 0)
    /\ last_outcome = "WIN" => (consecutive_losses = 0 /\ consecutive_wins > 0)
    /\ last_outcome = "LOSS" => (consecutive_wins = 0 /\ consecutive_losses > 0)

\* C14's case: of the two orders reconciled in this cycle the first was
\* lost and the second, the latest, won.
C14_Witness ==
    /\ pc = "check_win"
    /\ last_outcome = "WIN"
    /\ oidx = 3
    /\ applied[open_orders[1].id] = 1
    /\ applied[open_orders[2].id] = 1
    /\ daily_loss = open_orders[1].amount * 100
                    - open_orders[2].amount * open_orders[2].percentProfit

\* A step that ends a cycle of the main loop, and the orders that were
\* open when that cycle started.
CycleEnds == pc' = "idle" /\ (pc # "idle" \/ cycles' = cycles + 1)
OpenAtStart == IF pc = "idle" THEN Ids(open_orders) ELSE startOrders

\* C15: in every cycle of the main loop every order open at the cycle's
\* start is queried, also when the cycle's candidate list is empty.
C15_EveryCycleReconciles ==
    [][ CycleEnds => OpenAtStart \subseteq queried ]_vars

\* C16: no order is submitted for an asset while the time since its
\* last_trade_time (0 when none is recorded) is under TRADE_COOLDOWN.
C16_NoSubmissionInCooldown ==
    pc = "buy" =>
       /\ current_time = now
       /\ current_time - last_trade_time[assets[aidx]] >= TRADE_COOLDOWN

\* C16's case: a submission is under way for an asset with an earlier
\* attempt on record.
C16_Witness ==
    /\ pc = "buy"
    /\ last_trade_time[assets[aidx]] > 0
    /\ current_time - last_trade_time[assets[aidx]] >= TRADE_COOLDOWN

\* C17: two consecutive daily resets are at least 86400 seconds apart, and
\* a cycle that starts less than 86400 seconds after the last reset has
\* daily_loss, initial_daily_balance, the streaks and last_reset_time left
\* alone by the reset test.
C17_ResetOncePerDay ==
    [][ /\ (last_reset_time # None /\ last_reset_time' # last_reset_time) =>
              last_reset_time' - last_reset_time >= DaySeconds
        /\ ( /\ pc = "get_balance"
             /\ last_reset_time # None
             /\ current_time - last_reset_time < DaySeconds )
           => UNCHANGED <<daily_loss, initial_daily_balance, consecutive_wins,
                          consecutive_losses, last_reset_time>> ]_vars

\* C17's case: the reset test has just run less than a day after the last
\* reset, with a loss and a losing streak on record.
C17_Witness ==
    /\ pc = "check_win"
    /\ oidx = 1
    /\ last_outcome = "none"
    /\ last_reset_time # None
    /\ current_time - last_reset_time > 0
    /\ current_time - last_reset_time < DaySeconds
    /\ daily_loss > 0
    /\ consecutive_losses > 0

\* C18: a daily reset (none before, or at least 86400 s since the last)
\* sets daily_loss to 0, initial_daily_balance to the balance fetched in
\* this cycle, both streaks to 0, current_trade_percentage to
\* TRADE_PERCENTAGE and last_reset_time to the cycle's time, and leaves
\* open_orders and last_trade_time as they are.
C18_ResetEffects ==
    [][ ( /\ pc = "get_balance"
          /\ \/ last_reset_time = None
             \/ current_time - last_reset_time >= DaySeconds )
        => /\ daily_loss' = 0
           /\ initial_daily_balance' = current_balance'
           /\ consecutive_wins' = 0
           /\ consecutive_losses' = 0
           /\ current_trade_percentage' = cfg.TRADE_PERCENTAGE
           /\ last_reset_time' = current_time
           /\ UNCHANGED <<open_orders, last_trade_time>> ]_vars

\* C18's case: a second reset has just run, a day or more after the
\* first, with an order open and an attempt on record.
C18_Witness ==
    /\ pc = "check_win"
    /\ oidx = 1
    /\ last_outcome = "none"
    /\ cycles >= 2
    /\ last_reset_time = current_time
    /\ daily_loss = 0
    /\ initial_daily_balance = current_balance
    /\ open_orders # <<>>
    /\ last_trade_time[open_orders[1].asset] > 0

\* C19: every order in open_orders carries a broker-assigned id; an order
\* is added only by a submission whose reply reports success and holds an
\* id.
C19_OrdersCarryBrokerId ==
    [][ /\ \A i \in 1..Len(open_orders') : open_orders'[i].brokerId
        /\ Len(open_orders') > Len(open_orders) =>
              \E r \in BuyReplies :
                 /\ r.kind = "dict" /\ r.success /\ r.hasId
                 /\ BuyReplied(r)
                 /\ Len(open_orders') = Len(open_orders) + 1 ]_vars

\* C19's case: the order added last in this cycle is in open_orders.
C19_Witness ==
    /\ pc = "scan"
    /\ submits > 0
    /\ open_orders # <<>>
    /\ open_orders[Len(open_orders)].id = nextId - 1
    /\ open_orders[Len(open_orders)].id \notin startOrders

\* C20: a submission reported successful whose response has no order id
\* adds no order and sets last_trade_time[asset] to the attempt time.
C20_NoIdStartsCooldown ==
    [][ \A r \in BuyReplies :
           ( /\ r.kind # "raise" /\ r.success /\ ~ r.hasId
             /\ BuyReplied(r) )
           => /\ open_orders' = open_orders
              /\ last_trade_time'[assets[aidx]] = current_time ]_vars

\* C21: the amount is pct / 100 * balance clamped to [1.00, 5000.00] and
\* rounded to the cent, so it lies in [1.00, 5000.00] for every positive
\* balance: with the exact product whole + rem/10000 cents, the amount is
\* 1.00 when the product is under it, 5000.00 when the product reaches it,
\* and else within half a cent of the product.
C21_AmountClamped ==
    (probe.kind = "size" /\ probe.amount # None) =>
       LET a == probe.amount
           lo == probe.balance % 10000
           whole == probe.pct * (probe.balance \div 10000)
                    + (probe.pct * lo) \div 10000
           rem == (probe.pct * lo) % 10000
       IN  /\ MinAmount <= a
           /\ a <= MaxAmount
           /\ whole < MinAmount => a = MinAmount
           /\ whole >= MaxAmount => a = MaxAmount
           /\ (MinAmount <= whole /\ whole < MaxAmount) =>
                 \/ a = whole /\ 2 * rem <= 10000
                 \/ a = whole + 1 /\ 2 * rem >= 10000

\* C21's case: a product under 1.00 was sized to 1.00.
C21_Witness ==
    /\ probe.kind = "size"
    /\ probe.amount = MinAmount
    /\ probe.pct * probe.balance < MinAmount * 10000

\* C22: with a sizing balance of zero or less (a balance that could not be
\* read counts as 0), at the cycle's start or after the updates within the
\* scan, no order is submitted for the asset; no amount of zero or less is
\* submitted.
C22_NoOrderWithoutBalance ==
    [][ /\ pc' = "buy" => (balance' > 0 /\ amount' > 0)
        /\ (pc = "check_limit" /\ current_balance <= 0) =>
              /\ pc' = "idle"
              /\ open_orders' = open_orders
        /\ (pc = "get_price" /\ balance <= 0) =>
              /\ pc' = "scan"
              /\ aidx' = aidx + 1
              /\ UNCHANGED <<open_orders, last_trade_time, submits, balance>>
      ]_vars

\* C22's case: the scan is through a list of two assets; the one
\* submission left a running balance of zero, and the second asset, with
\* no open order and out of cooldown, got none.
C22_Witness ==
    /\ pc = "scan"
    /\ aidx = 3
    /\ assets[1] # assets[2]
    /\ submits = 1
    /\ balance <= 0
    /\ \A i \in 1..Len(open_orders) : open_orders[i].asset # assets[2]
    /\ now - last_trade_time[assets[2]] >= TRADE_COOLDOWN

\* C23: after every successful submission the running balance is the
\* balance the response reports when it reports a number, and else the
\* running balance less the submitted amount.
C23_RunningBalance ==
    [][ \A r \in BuyReplies :
           ( /\ r.kind = "dict" /\ r.success
             /\ BuyReplied(r) )
           => balance' = IF r.accountBalance # None
                         THEN r.accountBalance
                         ELSE balance - amount ]_vars

\* The conditions of the two directions, as the specification states them.
CallCondition == probe.rsi < cfg.RSI_BUY_THRESHOLD /\ probe.price > probe.sma
PutCondition == probe.rsi > cfg.RSI_SELL_THRESHOLD /\ probe.atr < cfg.ATR_MAX

\* C24: for numeric inputs the direction is CALL iff RSI <
\* RSI_BUY_THRESHOLD and price > SMA, PUT iff that fails and RSI >
\* RSI_SELL_THRESHOLD and ATR < ATR_MAX, and none otherwise; where both
\* conditions hold it is CALL.
C24_SignalRule ==
    (probe.kind = "signal" /\ probe.direction # "unset") =>
       /\ probe.direction \in {"call", "put", "none"}
       /\ probe.direction = "call" <=> CallCondition
       /\ probe.direction = "put" <=> (~ CallCondition /\ PutCondition)

\* C24's case: both conditions held and the direction is CALL.
C24_Witness ==
    /\ probe.kind = "signal"
    /\ CallCondition
    /\ PutCondition
    /\ probe.direction = "call"

\* C25: when the RSI, the SMA, the ATR or the price of an asset is missing
\* or not a number, the scan submits no order for it and leaves the
\* trading state as it is: the price is requested only with three numeric
\* indicators, a submission is reached only with those, a raising or
\* priceless price reply sends the scan to the next asset, and neither the
\* loop's head nor the price step writes the trading state.
C25_NoOrderOnMissingInput ==
    [][ /\ (pc' \in {"get_price", "buy"} /\ pc' # pc) =>
              LET ind == IF pc' = "buy" THEN asset_indicators
                         ELSE asset_indicators'
              IN  ind.RSI # None /\ ind.SMA # None /\ ind.ATR # None
        /\ pc \in {"scan", "get_price"} =>
              UNCHANGED <<open_orders, last_trade_time, daily_loss,
                          consecutive_wins, consecutive_losses,
                          current_trade_percentage, nextId>>
        /\ \A p \in PriceReplies :
              ((p.raised \/ p.price = None) /\ GetRealtimePriceReply(p)) =>
                 /\ pc' = "scan"
                 /\ aidx' = aidx + 1
                 /\ submits' = submits ]_vars

\* C25's case: the scan has passed the first of two entries of the same
\* asset, whose indicators lacked the SMA, without a submission.
C25_Witness ==
    /\ pc = "scan"
    /\ aidx = 2
    /\ Len(assets) = 2
    /\ assets[1] = assets[2]
    /\ indicators[assets[1]].RSI # None
    /\ indicators[assets[1]].SMA = None
    /\ submits = 0

\* C26: an exception of the price request or of the submission for one
\* asset is caught inside the scan: the loop goes on to the next position
\* of the same candidate list, and the scan phase ends only when the list
\* is through.
C26_ScanSurvivesExceptions ==
    [][ /\ \A p \in PriceReplies :
              (p.raised /\ GetRealtimePriceReply(p)) =>
                 /\ pc' = "scan"
                 /\ aidx' = aidx + 1
                 /\ assets' = assets
        /\ \A r \in BuyReplies :
              (r.kind = "raise" /\ BuyReplied(r)) =>
                 /\ pc' = "scan"
                 /\ aidx' = aidx + 1
                 /\ assets' = assets
        /\ (pc \in ScanPcs /\ pc' = "idle") =>
              (pc = "scan" /\ aidx > Len(assets)) ]_vars

\* C26's case: after an exception caught at the first asset the second
\* asset's submission is under way.
C26_Witness ==
    /\ pc = "buy"
    /\ aidx = 2
    /\ caught

\* C27: the scan phase, whatever client.buy answers, leaves daily_loss,
\* both streaks and current_trade_percentage (and the reset fields) as
\* they are; it only appends to open_orders and writes the last_trade_time
\* of the asset it is at.
C27_ScanOnlyAddsOrders ==
    [][ (pc \in ScanPcs) =>
           ( /\ UNCHANGED <<daily_loss, consecutive_wins, consecutive_losses,
                            current_trade_percentage, initial_daily_balance,
                            last_reset_time>>
             /\ Len(open_orders') >= Len(open_orders)
             /\ \A i \in 1..Len(open_orders) : open_orders'[i] = open_orders[i]
             /\ \A a \in Assets :
                   (last_trade_time'[a] # last_trade_time[a]) =>
                      (pc = "buy" /\ a = assets[aidx]) )
      ]_vars

\* C27's case: the scan has made two submissions, one of them adding an
\* order, with a loss and a losing streak on record.
C27_Witness ==
    /\ pc = "scan"
    /\ submits = 2
    /\ Len(open_orders) = 1
    /\ open_orders[1].id \notin startOrders
    /\ daily_loss > 0
    /\ consecutive_losses > 0

\* C28: an exception escaping list_open_otc_assets, calculate_indicators or
\* execute_trades is caught by the main loop: the step that raises leads to
\* the waiting period, the waiting period leads to the start of the next
\* cycle, and the controller never ends in a cycle that raised (it ends only
\* from a failed reconnect).
C28_CycleErrorsCaught ==
    [][ /\ (ctl.raised = "none" /\ ctl'.raised # "none") =>
              (ctl.pc \in {"list", "indicators", "trade"} /\ ctl'.pc = "wait")
        /\ (ctl.pc = "wait") =>
              (ctl'.pc = "list" /\ ctl'.cycle = ctl.cycle + 1)
        /\ (ctl'.pc = "exited") =>
              (ctl.pc = "connect" /\ ctl.raised = "none")
      ]_vars

\* Two cycles ended in the except clause and the third cycle has started.
C28_Witness ==
    /\ ctl.pc = "list"
    /\ ctl.cycle = 3
    /\ ctl.errors = 2

\* C29: a failed liveness probe starts reconnect at attempt 1; a successful
\* connect returns True at once (the cycle goes on to its waiting period), a
\* failed one is followed by the next attempt while fewer than max_attempts
\* were made and by the end of the controller at attempt max_attempts;
\* reconnect never makes more than max_attempts attempts and nothing runs
\* after the controller has ended.
C29_ReconnectBounded ==
    [][ /\ ctl'.attempt <= max_attempts
        /\ (ctl.pc = "probe" /\ ctl'.pc # "wait") =>
              (ctl'.pc = "connect" /\ ctl'.attempt = 1)
        /\ \A o \in ConnectOutcomes : ConnectReply(o) =>
              /\ (o = "ok") =>
                    (ctl'.pc = "wait" /\ ctl'.attempt = ctl.attempt)
              /\ (o # "ok" /\ ctl.attempt < max_attempts) =>
                    ctl'.pc = "backoff"
              /\ (o # "ok" /\ ctl.attempt >= max_attempts) =>
                    ctl'.pc = "exited"
        /\ (ctl.pc = "backoff") =>
              (ctl'.pc = "connect" /\ ctl'.attempt = ctl.attempt + 1)
        /\ ctl.pc # "exited"
      ]_vars

\* An earlier reconnect returned True, and this one has ended the controller
\* after max_attempts failed attempts.
C29_Witness ==
    /\ ctl.pc = "exited"
    /\ ctl.attempt = max_attempts
    /\ Len(ctl.slept) = max_attempts - 1
    /\ ctl.recovered >= 1

\* C30: within one reconnect every delay is a constant multiple (greater
\* than one) of the delay before it, so the delays strictly grow.
C30_DelaysGrowExponentially ==
    \E m \in 2..8 :
        \A k \in 1..(Len(ctl.slept) - 1) :
            /\ ctl.slept[k + 1] > ctl.slept[k]
            /\ ctl.slept[k + 1] = m * ctl.slept[k]

\* C31: at every await inside execute_trades no order whose WIN or LOSS has
\* been applied to daily_loss and the streak counters is still in
\* open_orders.
C31_NoAwaitBetweenApplyAndRemove ==
    AtAwait =>
        \A id \in 1..MaxOrders : applied[id] >= 1 => id \notin Ids(open_orders)

\* C32: a stop lets the reconciliation or submission step in flight finish
\* (it never falls inside the await of check_win or of buy), and no order the
\* broker accepted before the stop is missing from open_orders.
C32_GracefulStop ==
    (ctl.pc = "stopped") =>
        /\ ctl.at \notin {"check_win", "buy"}
        /\ ~ctl.accepted

\* C33: the next cycle starts no earlier than TRADE_COOLDOWN after the start
\* of a cycle that took less than TRADE_COOLDOWN, and without any wait after
\* a cycle that took longer.
C33_WaitFillsCooldown ==
    (probe.kind = "wait" /\ probe.pc = "next_cycle") =>
        /\ (probe.cycle_duration < TRADE_COOLDOWN) =>
              probe.cycle_duration + probe.time_passed_in_wait >= TRADE_COOLDOWN
        /\ (probe.cycle_duration > TRADE_COOLDOWN) =>
              probe.time_passed_in_wait = 0

\* C34: whenever client.buy is called for an asset, the latest earlier call
\* for the same asset, whatever it answered, lies at least TRADE_COOLDOWN
\* seconds back.
C34_AttemptsSeparated ==
    (pc = "buy" /\ last_attempt[assets[aidx]] # None) =>
        current_time - last_attempt[assets[aidx]] >= TRADE_COOLDOWN

\* C35: once check_daily_loss_limit has reported the limit as reached,
\* client.buy is not called before the next reset_daily, whatever the orders
\* still open finish as.
C35_LimitLatches ==
    limit_reported => pc # "buy"

\* C36: whenever client.buy is called the circuit breaker is armed:
\* initial_daily_balance > 0.
C36_BreakerArmedAtSubmission ==
    (pc = "buy") => initial_daily_balance > 0

\* C37: the amount sized from a positive running balance, which is the
\* amount client.buy is called with, does not exceed that balance.
C37_AmountWithinBalance ==
    (probe.kind = "size" /\ probe.amount # None) =>
        probe.amount <= probe.balance

\* C38: QuotexBot.connect makes at most MAX_RETRIES attempts; an attempt
\* that reports connected returns at once; a failed or raising attempt is
\* followed by a sleep and the next attempt while fewer than MAX_RETRIES were
\* made, and by RuntimeError, without a sleep, at attempt MAX_RETRIES; the
\* first sleep lasts INITIAL_BACKOFF and each later one twice the one before;
\* nothing runs after the return or the error.
C38_ConnectRetries ==
    [][ /\ probe'.attempt <= probe'.MAX_RETRIES
        /\ Len(probe'.slept) = probe'.attempt - 1 \/ probe'.attempt = 0
        /\ \A k \in 1..Len(probe'.slept) :
              probe'.slept[k] = IF k = 1 THEN probe'.INITIAL_BACKOFF
                                        ELSE 2 * probe'.slept[k - 1]
        /\ \A o \in QuotexConnectOutcomes : ConnectAttempt(o) =>
              /\ probe'.slept = probe.slept
              /\ probe'.attempt = probe.attempt
              /\ (o = "connected") => probe'.pc = "returned"
              /\ (o # "connected" /\ probe.attempt < probe.MAX_RETRIES) =>
                    probe'.pc = "sleep"
              /\ (o # "connected" /\ probe.attempt >= probe.MAX_RETRIES) =>
                    probe'.pc = "raised"
        /\ (probe.pc = "sleep") =>
              (probe'.pc = "connect" /\ probe'.attempt = probe.attempt + 1)
        /\ probe.pc \notin {"returned", "raised"}
      ]_vars

\* Four attempts failed, the last by an exception: three sleeps of 5, 10
\* and 20 seconds, then RuntimeError.
C38_Witness ==
    /\ probe.kind = "connect"
    /\ probe.pc = "raised"
    /\ probe.MAX_RETRIES = 4
    /\ probe.attempt = 4
    /\ probe.slept = <<5, 10, 20>>
    /\ probe.failure = "exception"

\* C39: a call of calculate_indicators that follows a call with the same
\* asset set and timeframe by less than the TTL (5 x timeframe) returns the
\* cached result: it fetches no candles and computes nothing.
C39_SecondCallCached ==
    ( /\ probe.kind = "cache"
      /\ probe.calls >= 2
      /\ probe.assets = probe.prev_assets
      /\ probe.time - probe.prev_time < 5 * probe.timeframe ) =>
        ~ probe.fetched

=============================================================================
